---- MODULE Spec2Model ----
(***************************************************************************)
(* Model of src/src/process_terms/auto_terms_table.py: the pipeline        *)
(* build_auto_tables (entity location, provenance filter, span             *)
(* normalisation, microbe-name extraction, category inference, DataFrame   *)
(* construction, dropna, drop_duplicates, flag coercion).                  *)
(*                                                                         *)
(* Python values are tagged records; Python strings are sequences of       *)
(* one-character strings, so that lower(), strip(), substring search and   *)
(* the regular expressions are computed character by character.            *)
(* A parsed YAML value is one of: None, bool, int, str, date, list, dict.  *)
(* A dict is its sequence of (key, value) pairs in insertion order.        *)
(***************************************************************************)
EXTENDS Integers, Sequences, FiniteSets, TLC

(* ------------------------------------------------------------------ *)
(* Characters                                                          *)
(* ------------------------------------------------------------------ *)
UpperSeq == <<"A","B","C","D","E","F","G","H","I","J","K","L","M",
              "N","O","P","Q","R","S","T","U","V","W","X","Y","Z">>
LowerSeq == <<"a","b","c","d","e","f","g","h","i","j","k","l","m",
              "n","o","p","q","r","s","t","u","v","w","x","y","z">>
DigitSeq == <<"0","1","2","3","4","5","6","7","8","9">>

Range(s) == { s[i] : i \in 1..Len(s) }

UpperChars == Range(UpperSeq)
LowerChars == Range(LowerSeq)
DigitChars == Range(DigitSeq)
\* \w of the re module (ASCII part)
WordChars == UpperChars \cup LowerChars \cup DigitChars \cup {"_"}
\* \s of the re module, and what str.strip() removes
SpaceChars == {" ", "\t", "\n"}

\* str.lower() on one character
LowerChar(c) ==
    IF c \in UpperChars
    THEN LowerSeq[CHOOSE i \in 1..Len(UpperSeq) : UpperSeq[i] = c]
    ELSE c

\* str.lower()
Lower(s) == [i \in 1..Len(s) |-> LowerChar(s[i])]

\* the literal w occurs in s starting at index i
MatchAt(s, i, w) ==
    /\ i >= 1
    /\ i + Len(w) - 1 <= Len(s)
    /\ \A j \in 1..Len(w) : s[i + j - 1] = w[j]

\* Python's `w in s` for strings
Contains(s, w) == \E i \in 1..(Len(s) + 1) : MatchAt(s, i, w)

RECURSIVE LStrip(_)
LStrip(s) == IF s # <<>> /\ Head(s) \in SpaceChars THEN LStrip(Tail(s)) ELSE s

RECURSIVE RStrip(_)
RStrip(s) ==
    IF s # <<>> /\ s[Len(s)] \in SpaceChars
    THEN RStrip(SubSeq(s, 1, Len(s) - 1))
    ELSE s

\* str.strip()
Strip(s) == RStrip(LStrip(s))

\* sep.join(parts) for a sequence of strings
RECURSIVE Join(_, _)
Join(sep, parts) ==
    IF parts = <<>> THEN <<>>
    ELSE IF Len(parts) = 1 THEN parts[1]
    ELSE parts[1] \o sep \o Join(sep, Tail(parts))

\* str(n) for an int n >= 0
RECURSIVE IntStr(_)
IntStr(n) ==
    IF n < 10 THEN <<DigitSeq[n + 1]>>
    ELSE IntStr(n \div 10) \o <<DigitSeq[(n % 10) + 1]>>

\* "%02d" % n
Pad2(n) == IF n < 10 THEN <<"0">> \o IntStr(n) ELSE IntStr(n)

(* ------------------------------------------------------------------ *)
(* Python values                                                       *)
(* ------------------------------------------------------------------ *)
None     == [t |-> "none"]
Bool(b)  == [t |-> "bool", b |-> b]
Num(n)   == [t |-> "int", n |-> n]
Str(s)   == [t |-> "str", s |-> s]
\* a datetime.date, as yaml.safe_load builds it from an unquoted 2020-01-05
Date(y, m, d) == [t |-> "date", y |-> y, m |-> m, d |-> d]
List(xs) == [t |-> "list", items |-> xs]
Dict(ps) == [t |-> "dict", pairs |-> ps]
KV(k, v) == [k |-> k, v |-> v]

IsStr(v)  == v.t = "str"
IsList(v) == v.t = "list"
IsDict(v) == v.t = "dict"
IsNone(v) == v.t = "none"

\* bool(v): Python truthiness
Truthy(v) ==
    CASE v.t = "none" -> FALSE
      [] v.t = "bool" -> v.b
      [] v.t = "int"  -> v.n # 0
      [] v.t = "str"  -> v.s # <<>>
      [] v.t = "date" -> TRUE
      [] v.t = "list" -> v.items # <<>>
      [] v.t = "dict" -> v.pairs # <<>>

\* k in d
HasKey(d, k) == \E i \in 1..Len(d.pairs) : d.pairs[i].k = k

\* d.get(k)
Get(d, k) ==
    IF HasKey(d, k)
    THEN d.pairs[CHOOSE i \in 1..Len(d.pairs) : d.pairs[i].k = k].v
    ELSE None

\* d.values()
Values(d) == [i \in 1..Len(d.pairs) |-> d.pairs[i].v]

\* a or b
Or(a, b) == IF Truthy(a) THEN a ELSE b

\* the characters of a dict key, for the keys of the mappings that the model
\* turns into text
KeyChars(k) ==
    CASE k = "text"  -> <<"t","e","x","t">>
      [] k = "span"  -> <<"s","p","a","n">>
      [] k = "value" -> <<"v","a","l","u","e">>
      [] k = "name"  -> <<"n","a","m","e">>
      [] k = "taxon" -> <<"t","a","x","o","n">>
      [] k = "note"  -> <<"n","o","t","e">>
      [] k = "when"  -> <<"w","h","e","n">>

\* repr(v) (quoted) and str(v) (not quoted) of a parsed YAML value; they differ
\* on a str and a date. The strings of the model hold no quote and no
\* backslash, so repr quotes with ' and escapes nothing.
RECURSIVE PyRepr(_, _)
PyRepr(v, quoted) ==
    CASE v.t = "none" -> <<"N","o","n","e">>
      [] v.t = "bool" -> IF v.b THEN <<"T","r","u","e">> ELSE <<"F","a","l","s","e">>
      [] v.t = "int"  -> IntStr(v.n)
      [] v.t = "str"  -> IF quoted THEN <<"'">> \o v.s \o <<"'">> ELSE v.s
      [] v.t = "date" ->
            IF quoted
            THEN <<"d","a","t","e","t","i","m","e",".","d","a","t","e","(">>
                    \o IntStr(v.y) \o <<",", " ">> \o IntStr(v.m) \o <<",", " ">>
                    \o IntStr(v.d) \o <<")">>
            ELSE IntStr(v.y) \o <<"-">> \o Pad2(v.m) \o <<"-">> \o Pad2(v.d)
      [] v.t = "list" ->
            <<"[">> \o Join(<<",", " ">>,
                [i \in 1..Len(v.items) |-> PyRepr(v.items[i], TRUE)]) \o <<"]">>
      [] v.t = "dict" ->
            <<"{">> \o Join(<<",", " ">>,
                [i \in 1..Len(v.pairs) |->
                    <<"'">> \o KeyChars(v.pairs[i].k) \o <<"'", ":", " ">>
                        \o PyRepr(v.pairs[i].v, TRUE)]) \o <<"}">>

\* str(v)
PyStr(v) == PyRepr(v, FALSE)

\* json.dumps raises TypeError on a value that holds a date
RECURSIVE JsonOk(_)
JsonOk(v) ==
    CASE v.t = "date" -> FALSE
      [] v.t = "list" -> \A i \in 1..Len(v.items) : JsonOk(v.items[i])
      [] v.t = "dict" -> \A i \in 1..Len(v.pairs) : JsonOk(v.pairs[i].v)
      [] OTHER        -> TRUE

\* json.dumps(v, ensure_ascii=False), for a v with JsonOk(v); the strings of
\* the model hold nothing json escapes
RECURSIVE JsonDumps(_)
JsonDumps(v) ==
    CASE v.t = "none" -> <<"n","u","l","l">>
      [] v.t = "bool" -> IF v.b THEN <<"t","r","u","e">> ELSE <<"f","a","l","s","e">>
      [] v.t = "int"  -> IntStr(v.n)
      [] v.t = "str"  -> <<"\"">> \o v.s \o <<"\"">>
      [] v.t = "list" ->
            <<"[">> \o Join(<<",", " ">>,
                [i \in 1..Len(v.items) |-> JsonDumps(v.items[i])]) \o <<"]">>
      [] v.t = "dict" ->
            <<"{">> \o Join(<<",", " ">>,
                [i \in 1..Len(v.pairs) |->
                    <<"\"">> \o KeyChars(v.pairs[i].k) \o <<"\"", ":", " ">>
                        \o JsonDumps(v.pairs[i].v)]) \o <<"}">>
      [] OTHER        -> <<>>

\* hash(v) raises TypeError on a list or a dict
Hashable(v) == ~(IsList(v) \/ IsDict(v))

(* ------------------------------------------------------------------ *)
(* Sequence helpers                                                    *)
(* ------------------------------------------------------------------ *)
\* the concatenation of a sequence of sequences (list.extend in a loop)
RECURSIVE Flatten(_)
Flatten(ss) == IF ss = <<>> THEN <<>> ELSE Head(ss) \o Flatten(Tail(ss))

\* [x for x in xs if isinstance(x, dict)]
RECURSIVE OnlyDicts(_)
OnlyDicts(xs) ==
    IF xs = <<>> THEN <<>>
    ELSE (IF IsDict(Head(xs)) THEN <<Head(xs)>> ELSE <<>>) \o OnlyDicts(Tail(xs))

\* number of occurrences of x in the sequence xs
Count(x, xs) == Cardinality({ i \in 1..Len(xs) : xs[i] = x })

(* ------------------------------------------------------------------ *)
(* find_entities_like                                                  *)
(* ------------------------------------------------------------------ *)
RecognizedKeys ==
    <<"named_entities", "named-entities", "entities", "ner", "annotations", "extractions">>

\* lines 20-24: what one recognized key of the mapping obj contributes
KeyBlock(obj, k) ==
    IF ~HasKey(obj, k) THEN <<>>
    ELSE LET block == Get(obj, k)
         IN  IF IsList(block) THEN OnlyDicts(block.items)
             ELSE IF IsDict(block) THEN OnlyDicts(Values(block))
             ELSE <<>>

\* lines 27-29: a non-empty sequence of mappings only is taken whole
UniformList(obj) ==
    IF obj.items # <<>> /\ \A i \in 1..Len(obj.items) : IsDict(obj.items[i])
    THEN obj.items
    ELSE <<>>

\* find_entities_like without lines 25-26, the descent into the values of a
\* mapping: the variant that C9_Coverage must tell from the code
find_entities_shallow(obj) ==
    IF IsDict(obj)
    THEN Flatten([i \in 1..Len(RecognizedKeys) |-> KeyBlock(obj, RecognizedKeys[i])])
    ELSE IF IsList(obj) THEN UniformList(obj)
    ELSE <<>>

RECURSIVE find_entities_like(_)
find_entities_like(obj) ==
    IF IsDict(obj)
    THEN Flatten([i \in 1..Len(RecognizedKeys) |-> KeyBlock(obj, RecognizedKeys[i])])
         \o Flatten([i \in 1..Len(obj.pairs) |-> find_entities_like(obj.pairs[i].v)])
    ELSE IF IsList(obj) THEN UniformList(obj)
    ELSE <<>>

(* ------------------------------------------------------------------ *)
(* normalize_spans, extract_microbe_names, entity_contains_auto        *)
(* ------------------------------------------------------------------ *)
\* A call that may raise returns [ok |-> FALSE, ...] when it raises.
Ok(v)  == [ok |-> TRUE, val |-> v]
Raised == [ok |-> FALSE, val |-> None]

\* for k in keys: if d.get(k): parts.append(str(d[k])); break
\* the sequence of zero or one strings that the loop appends
RECURSIVE FirstTruthyStr(_, _)
FirstTruthyStr(d, keys) ==
    IF keys = <<>> THEN <<>>
    ELSE IF Truthy(Get(d, Head(keys))) THEN <<PyStr(Get(d, Head(keys)))>>
    ELSE FirstTruthyStr(d, Tail(keys))

SpanKeys == <<"text", "span", "value", "original", "surface", "string">>
NameKeys == <<"name", "label", "taxon", "scientific_name", "value", "id">>

\* lines 36-43: parts of a list of spans
SpanParts(items) ==
    Flatten([i \in 1..Len(items) |->
        IF IsDict(items[i]) THEN FirstTruthyStr(items[i], SpanKeys)
        ELSE <<PyStr(items[i])>>])

\* the result is a Python value: line 45 returns whatever the mapping holds
\* under text, span or value, which need not be a str
normalize_spans(spans) ==
    CASE IsNone(spans) -> Ok(Str(<<>>))
      [] IsStr(spans)  -> Ok(spans)
      [] IsList(spans) -> Ok(Str(Join(<<";", " ">>, SpanParts(spans.items))))
      [] IsDict(spans) ->
            LET v == Or(Get(spans, "text"), Or(Get(spans, "span"), Get(spans, "value")))
            IN  IF Truthy(v) THEN Ok(v)
                ELSE IF JsonOk(spans) THEN Ok(Str(JsonDumps(spans)))
                ELSE Raised
      [] OTHER -> Ok(Str(PyStr(spans)))

\* lines 50-62: names before the final comprehension
RawNames(val) ==
    CASE IsNone(val) -> <<>>
      [] IsList(val) ->
            Flatten([i \in 1..Len(val.items) |->
                IF IsDict(val.items[i]) THEN FirstTruthyStr(val.items[i], NameKeys)
                ELSE <<PyStr(val.items[i])>>])
      [] IsDict(val) -> FirstTruthyStr(val, NameKeys)
      [] IsStr(val)  -> <<val.s>>
      [] OTHER       -> <<>>

\* line 63: [n.strip() for n in names if n]
RECURSIVE StripNonEmpty(_)
StripNonEmpty(names) ==
    IF names = <<>> THEN <<>>
    ELSE (IF Head(names) # <<>> THEN <<Strip(Head(names))>> ELSE <<>>)
         \o StripNonEmpty(Tail(names))

extract_microbe_names(val) == StripNonEmpty(RawNames(val))

Marker == <<"a","u","t","o",":">>

RECURSIVE walk(_)
walk(x) ==
    CASE IsDict(x) -> \E i \in 1..Len(x.pairs) : walk(x.pairs[i].v)
      [] IsList(x) -> \E i \in 1..Len(x.items) : walk(x.items[i])
      [] OTHER     -> Contains(Lower(PyStr(x)), Marker)

entity_contains_auto(ent) == walk(ent)

(* ------------------------------------------------------------------ *)
(* Regular expressions (re.search on a string of characters)           *)
(* ------------------------------------------------------------------ *)
IsWordAt(s, i) == i >= 1 /\ i <= Len(s) /\ s[i] \in WordChars

\* \b between s[p] and s[p+1], for p in 0..Len(s)
Boundary(s, p) == IsWordAt(s, p) # IsWordAt(s, p + 1)

\* every character of s[i..j] is in the class cs
AllIn(s, i, j, cs) == \A x \in i..j : s[x] \in cs

\* re.search(r"\b(w1|w2|...)\b", s) for literal alternatives
WordSearch(s, ws) ==
    \E i \in 1..Len(s) :
        /\ Boundary(s, i - 1)
        /\ \E w \in ws : MatchAt(s, i, w) /\ Boundary(s, i + Len(w) - 1)

\* the same under re.I, the alternatives given in lower case
WordSearchI(s, ws) == WordSearch(Lower(s), ws)

\* line 78: \b([A-Z][a-z]+)\s([a-z\-]{2,})\b
\* i: the capital, j: the last letter of the genus, j+1: the blank, e: the end
BINOMIAL_RE(s) ==
    \E i \in 1..Len(s) :
        /\ Boundary(s, i - 1)
        /\ s[i] \in UpperChars
        /\ \E j \in (i + 1)..Len(s) :
            /\ AllIn(s, i + 1, j, LowerChars)
            /\ j + 1 <= Len(s)
            /\ s[j + 1] \in SpaceChars
            /\ \E e \in (j + 3)..Len(s) :
                /\ AllIn(s, j + 2, e, LowerChars \cup {"-"})
                /\ Boundary(s, e)

\* line 79
StrainKeyWords ==
    {
    <<"D","S","M">>, <<"A","T","C","C">>, <<"J","C","M">>,
    <<"N","R","R","L">>, <<"N","C","I","M","B">>, <<"K","C","T","C">>,
    <<"C","G","M","C","C">>, <<"N","B","R","C">>, <<"B","C","R","C">>,
    <<"L","M","G">>, <<"N","C","T","C">>, <<"K","A","C","C">> }

STRAIN_KEYS(s) == WordSearch(s, StrainKeyWords)

\* line 80
StrainWordList ==
    {
    <<"s","t","r","a","i","n">>, <<"i","s","o","l","a","t","e">>,
    <<"t","y","p","e"," ","s","t","r","a","i","n">>,
    <<"c","u","l","t","u","r","e">> }

STRAIN_WORDS(s) == WordSearchI(s, StrainWordList)

\* line 81: \b([A-Z]{1,3}\d{2,}[A-Za-z0-9\-]*)\b
\* i: the first capital, j: the last capital, d: the last digit, e: the end
STRAIN_CODE(s) ==
    \E i \in 1..Len(s) :
        /\ Boundary(s, i - 1)
        /\ s[i] \in UpperChars
        /\ \E j \in i..(i + 2) :
            /\ j <= Len(s)
            /\ AllIn(s, i, j, UpperChars)
            /\ \E d \in (j + 2)..Len(s) :
                /\ AllIn(s, j + 1, d, DigitChars)
                /\ \E e \in d..Len(s) :
                    /\ AllIn(s, d + 1, e,
                             UpperChars \cup LowerChars \cup DigitChars \cup {"-"})
                    /\ Boundary(s, e)

\* lines 82-87, in lower case (the pattern is compiled with re.I)
ChemWordList ==
    {
    <<"g","l","u","c","o","s","e">>, <<"f","r","u","c","t","o","s","e">>,
    <<"s","u","c","r","o","s","e">>, <<"l","a","c","t","o","s","e">>,
    <<"x","y","l","o","s","e">>, <<"a","r","a","b","i","n","o","s","e">>,
    <<"c","e","l","l","u","l","o","s","e">>, <<"x","y","l","a","n">>,
    <<"l","i","g","n","i","n">>, <<"g","l","y","c","e","r","o","l">>,
    <<"a","c","e","t","a","t","e">>,
    <<"p","r","o","p","i","o","n","a","t","e">>,
    <<"b","u","t","y","r","a","t","e">>, <<"l","a","c","t","a","t","e">>,
    <<"p","y","r","u","v","a","t","e">>,
    <<"s","u","c","c","i","n","a","t","e">>, <<"c","i","t","r","a","t","e">>,
    <<"e","t","h","a","n","o","l">>, <<"m","e","t","h","a","n","o","l">>,
    <<"p","h","e","n","o","l">>, <<"b","e","n","z","e","n","e">>,
    <<"t","o","l","u","e","n","e">>, <<"x","y","l","e","n","e">>,
    <<"s","u","l","f","a","t","e">>, <<"s","u","l","p","h","a","t","e">>,
    <<"s","u","l","f","i","t","e">>, <<"s","u","l","p","h","i","t","e">>,
    <<"n","i","t","r","a","t","e">>, <<"n","i","t","r","i","t","e">>,
    <<"a","m","m","o","n","i","a">>, <<"a","m","m","o","n","i","u","m">>,
    <<"c","h","l","o","r","o","f","o","r","m">>,
    <<"f","o","r","m","a","t","e">>,
    <<"f","o","r","m","i","c"," ","a","c","i","d">>,
    <<"a","c","e","t","i","c"," ","a","c","i","d">>,
    <<"c","i","t","r","i","c"," ","a","c","i","d">>, <<"n","a","c","l">>,
    <<"k","c","l">>, <<"m","g","c","l","2">>, <<"h","2">>, <<"h","2","s">>,
    <<"c","o","2">>, <<"c","h","4">>, <<"u","r","e","a">>,
    <<"h","e","m","e">>, <<"a","m","i","n","o"," ","a","c","i","d">>,
    <<"a","m","i","n","o"," ","a","c","i","d","s">> }

CHEM_KEYWORDS(s) == WordSearchI(s, ChemWordList)

\* line 116, in lower case (re.I)
TaxonWordList ==
    {
    <<"g","e","n","u","s">>, <<"s","p","e","c","i","e","s">>,
    <<"f","a","m","i","l","y">>, <<"o","r","d","e","r">>,
    <<"p","h","y","l","u","m">>, <<"c","l","a","s","s">>,
    <<"m","i","c","r","o","b","e">>, <<"b","a","c","t","e","r","i","u","m">>,
    <<"a","r","c","h","a","e","a">>, <<"f","u","n","g","u","s">>,
    <<"y","e","a","s","t">> }

TAXON_WORDS(s) == WordSearchI(s, TaxonWordList)

(* ------------------------------------------------------------------ *)
(* _concat_text, infer_categories                                      *)
(* ------------------------------------------------------------------ *)
TextKeys == <<"label", "original_spans", "spans", "mentions">>

\* line 94: the part one key contributes, as a call that may raise
TextPart(ent, k) ==
    LET v == Get(ent, k)
    IN  IF k = "label" THEN Ok(IF IsStr(v) THEN v ELSE Str(PyStr(v)))
        ELSE normalize_spans(v)

\* lines 90-95; [ok, text]: " | ".join raises TypeError on a part that is
\* truthy and not a str
_concat_text(ent) ==
    LET present == SelectSeq(TextKeys, LAMBDA k : ~IsNone(Get(ent, k)))
        parts   == [i \in 1..Len(present) |-> TextPart(ent, present[i])]
        kept    == SelectSeq(parts, LAMBDA p : p.ok /\ Truthy(p.val))
    IN  IF \E i \in 1..Len(parts) : ~parts[i].ok
          THEN [ok |-> FALSE, text |-> <<>>]
        ELSE IF \E i \in 1..Len(kept) : ~IsStr(kept[i].val)
          THEN [ok |-> FALSE, text |-> <<>>]
        ELSE [ok |-> TRUE,
              text |-> Join(<<" ", "|", " ">>, [i \in 1..Len(kept) |-> kept[i].val.s])]

\* lines 115-117
TaxaHeuristic(text) == BINOMIAL_RE(text) \/ TAXON_WORDS(text)
\* lines 118-120
StrainHeuristic(text) == STRAIN_KEYS(text) \/ STRAIN_WORDS(text) \/ STRAIN_CODE(text)
\* lines 121-123
ChemHeuristic(text) == CHEM_KEYWORDS(text)

\* Flag with line 111 left out (the explicit field ignored): the variant that
\* C6_TruthyPrecedence must tell from the code
FlagHeuristicOnly(explicit, heuristic) == IF heuristic THEN 1 ELSE 0

\* Flag that counts the evidence instead of capping it at 1: the variant that
\* C8_FlagDomain must tell from the code
FlagCount(explicit, heuristic) ==
    (IF explicit THEN 1 ELSE 0) + (IF heuristic THEN 1 ELSE 0)

\* lines 105-123 for one category: 0, 1 by the explicit field, else 1 by the
\* heuristic
Flag(explicit, heuristic) ==
    LET f == IF explicit THEN 1 ELSE 0
    IN  IF f = 0 THEN (IF heuristic THEN 1 ELSE 0) ELSE f

infer_categories(ent) ==
    LET ct == _concat_text(ent)
    IN  IF ~ct.ok
        THEN [ok |-> FALSE, study_taxa |-> 0, strains |-> 0, chemicals_mentioned |-> 0]
        ELSE [ok |-> TRUE,
              study_taxa |-> Flag(Truthy(Get(ent, "study_taxa")), TaxaHeuristic(ct.text)),
              strains |-> Flag(Truthy(Get(ent, "strains")), StrainHeuristic(ct.text)),
              chemicals_mentioned |->
                  Flag(Truthy(Get(ent, "chemicals_mentioned"))
                         \/ Truthy(Get(ent, "chemicals")),
                       ChemHeuristic(ct.text))]

(* ------------------------------------------------------------------ *)
(* build_auto_tables: rows, DataFrame, dropna, drop_duplicates, astype *)
(* ------------------------------------------------------------------ *)
UNKNOWN_MICROBE == <<"U","N","K","N","O","W","N","_","M","I","C","R","O","B","E">>

\* line 140
Microbes(e) ==
    LET names == extract_microbe_names(Get(e, "study_taxa"))
    IN  IF names # <<>> THEN names ELSE <<UNKNOWN_MICROBE>>

\* line 145
RowId(e) == Or(Or(Get(e, "id"), Get(e, "_id")), Get(e, "uuid"))

\* line 147, a call that may raise
RowSpans(e) ==
    normalize_spans(Or(Or(Get(e, "original_spans"), Get(e, "spans")), Get(e, "mentions")))

\* lines 140-151: the rows one entity appends, or the exception it raises
EntityRows(e) ==
    LET microbes == Microbes(e)
        flags    == infer_categories(e)
        sp       == RowSpans(e)
    IN  IF ~flags.ok \/ ~sp.ok THEN [ok |-> FALSE, rows |-> <<>>]
        ELSE [ok |-> TRUE,
              rows |-> [i \in 1..Len(microbes) |->
                  [microbe |-> microbes[i],
                   id |-> RowId(e),
                   label |-> Get(e, "label"),
                   original_spans |-> sp.val,
                   study_taxa |-> flags.study_taxa,
                   strains |-> flags.strains,
                   chemicals_mentioned |-> flags.chemicals_mentioned]]]

Columns ==
    <<"microbe", "id", "label", "original_spans", "study_taxa", "strains",
      "chemicals_mentioned">>

\* line 153: pd.DataFrame(rows); the columns are the keys of the row dicts, so
\* a frame built from no rows has no columns
DataFrame(rows) == [columns |-> IF rows = <<>> THEN <<>> ELSE Columns, rows |-> rows]

\* line 155: df.empty
Empty(df) == df.rows = <<>> \/ df.columns = <<>>

\* pandas.isna on a cell of an object column
IsNA(v) == IsNone(v)

\* line 157: dropna(how="all", subset=["id","label","original_spans"])
dropna(df) ==
    [df EXCEPT !.rows = SelectSeq(df.rows,
        LAMBDA r : ~(IsNA(r.id) /\ IsNA(r.label) /\ IsNA(r.original_spans)))]

\* drop_duplicates hashes the cells of the object columns
RowHashable(r) == Hashable(r.id) /\ Hashable(r.label) /\ Hashable(r.original_spans)

\* drop_duplicates with "microbe" left out of the subset: the variant that
\* C7_Deduplication must tell from the code
KeepFirstPerEntity(rows) ==
    LET key(r) == [r EXCEPT !.microbe = <<>>]
        keep == { i \in 1..Len(rows) : \A j \in 1..(i - 1) : key(rows[j]) # key(rows[i]) }
        RECURSIVE Pick(_)
        Pick(i) == IF i > Len(rows) THEN <<>>
                   ELSE (IF i \in keep THEN <<rows[i]>> ELSE <<>>) \o Pick(i + 1)
    IN  Pick(1)

\* drop_duplicates that removes nothing: the variant that C10_DoubleMasked must
\* tell from the code
KeepAll(rows) == rows

\* keep="first": a row stays when no earlier row equals it. Cells are equal
\* as values of the model are; the inputs hold no two values that Python
\* holds equal across types (1 and True), and ids that are strings or None,
\* so that pandas keeps the column as objects.
KeepFirst(rows) ==
    LET keep == { i \in 1..Len(rows) : \A j \in 1..(i - 1) : rows[j] # rows[i] }
        RECURSIVE Pick(_)
        Pick(i) == IF i > Len(rows) THEN <<>>
                   ELSE (IF i \in keep THEN <<rows[i]>> ELSE <<>>) \o Pick(i + 1)
    IN  Pick(1)

\* lines 160-162, a call that may raise; the subset is every column
drop_duplicates(df) ==
    IF \E i \in 1..Len(df.rows) : ~RowHashable(df.rows[i])
    THEN [ok |-> FALSE, df |-> df]
    ELSE [ok |-> TRUE, df |-> [df EXCEPT !.rows = KeepFirst(df.rows)]]

\* line 166 on one cell: fillna(0).astype(int). The column holds the ints that
\* infer_categories returned (no row lacks a flag), and on an int both leave
\* the cell as it is.
CoerceFlag(f) == f

\* lines 165-166
CoerceFlags(df) ==
    [df EXCEPT !.rows = [i \in 1..Len(df.rows) |->
        [df.rows[i] EXCEPT !.study_taxa = CoerceFlag(@),
                           !.strains = CoerceFlag(@),
                           !.chemicals_mentioned = CoerceFlag(@)]]]

\* lines 153-168: the frame returned for the rows built, or the exception
Finish(rows) ==
    LET df == DataFrame(rows)
    IN  IF Empty(df) THEN [ok |-> TRUE, df |-> df]
        ELSE LET dd == drop_duplicates(dropna(df))
             IN  IF dd.ok THEN [ok |-> TRUE, df |-> CoerceFlags(dd.df)]
                 ELSE [ok |-> FALSE, df |-> DataFrame(<<>>)]

\* line 135 without its condition: the variant that C5_ProvenanceGating must
\* tell from the code
FilterNothing(entities) == entities

\* line 135
FilterAuto(entities) == SelectSeq(entities, entity_contains_auto)

(* ------------------------------------------------------------------ *)
(* Inputs: strings, entities and YAML documents                        *)
(* ------------------------------------------------------------------ *)
sAutoTaxon == <<"a","u","t","o",":"," ","t","a","x","o","n">>
sAutoDSM == <<"a","u","t","o",":"," ","D","S","M"," ","1","2">>
sAutoX == <<"a","u","t","o",":","x">>
sAUTOner == <<"A","U","T","O",":","n","e","r">>
sAutoTag == <<"a","u","t","o",":","t">>
sAutoclave == <<"a","u","t","o","c","l","a","v","e">>
sGene == <<"g","e","n","e">>
sGrown == <<"g","r","o","w","n">>
sBsub == <<"B","."," ","s","u","b">>
sEcoli == <<"E","."," ","c","o","l","i">>
sEcoliPad == <<" ","E","."," ","c","o","l","i"," ">>
sBlank == <<" ">>
sE1 == <<"e","1">>
sE3 == <<"e","3">>
sE5 == <<"e","5">>
sU1 == <<"u","1">>
sS == <<"S">>
sBinomial == <<"a","u","t","o",":"," ","V","i","b","r","i","o"," ","f","i">>
sGlucoseK12 == <<"a","u","t","o",":"," ","K","1","2"," ","u","r","e","a">>

\* a mapping from the (key, value) pairs of ps whose value is given: a field
\* listed with the value Absent is left out of the mapping
Absent == [t |-> "absent"]
Entity(ps) == Dict(SelectSeq(ps, LAMBDA p : p.v # Absent))

\* the entity of the spec's first end-to-end example, with shorter strings
E_two == Dict(<<KV("id", Str(sE1)), KV("label", Str(sAutoTaxon)),
                KV("study_taxa", List(<<Str(sBsub), Str(sEcoli)>>)),
                KV("original_spans", Str(sGrown))>>)
\* the same output fields as the second row of E_two, the name padded
E_one == Dict(<<KV("id", Str(sE1)), KV("label", Str(sAutoTaxon)),
                KV("study_taxa", Dict(<<KV("taxon", Str(sEcoliPad))>>)),
                KV("spans", List(<<Dict(<<KV("span", Str(sGrown))>>)>>))>>)
\* the entity of the spec's second end-to-end example
E_dsm == Dict(<<KV("label", Str(sAutoDSM))>>)
\* no marker
E_plain == Dict(<<KV("id", Str(sE3)), KV("label", Str(sGene)),
                  KV("study_taxa", Str(sEcoli))>>)
\* "auto" without the colon: no marker
E_clave == Dict(<<KV("id", Str(sE3)), KV("label", Str(sAutoclave))>>)
\* the marker only, in upper case, under a key of no other use
E_bare == Dict(<<KV("source", Str(sAUTOner))>>)
\* the marker nested in a mapping and a sequence; id under _id
E_deep == Dict(<<KV("_id", Str(sU1)), KV("label", Str(sGene)),
                 KV("meta", Dict(<<KV("tags", List(<<Num(5), Str(sAutoTag)>>))>>))>>)
\* a whitespace-only taxon name
E_blank == Dict(<<KV("id", Str(sE5)), KV("label", Str(sAutoX)),
                  KV("study_taxa", Str(sBlank))>>)
\* a taxon value of unsupported shape, and empty names in a sequence
E_num == Dict(<<KV("id", Str(sE5)), KV("label", Str(sAutoX)),
                KV("study_taxa", Num(5))>>)
E_empties == Dict(<<KV("id", Str(sE5)), KV("label", Str(sAutoX)),
                    KV("study_taxa", List(<<Str(<<>>), Dict(<<KV("note", Str(sS))>>)>>))>>)
\* a span mapping whose text is a number
E_numtext == Dict(<<KV("id", Str(sE5)), KV("label", Str(sAutoX)),
                    KV("spans", Dict(<<KV("text", Num(5))>>))>>)
\* a label that is a sequence
E_listlabel == Dict(<<KV("id", Str(sE5)), KV("label", List(<<Str(sAutoX)>>))>>)
\* a span mapping that holds a date and none of text, span, value
E_date == Dict(<<KV("id", Str(sE5)), KV("label", Str(sAutoX)),
                 KV("mentions", Dict(<<KV("when", Date(2020, 1, 5))>>))>>)
\* strains present and falsy; strains truthy beside a matching pattern; a
\* strain code, a chemical and a binomial
E_nostrain == Dict(<<KV("id", Str(sE5)), KV("label", Str(sAutoX)),
                     KV("strains", List(<<>>))>>)
E_strain == Dict(<<KV("id", Str(sE5)), KV("label", Str(sAutoDSM)),
                   KV("strains", Str(sS)), KV("chemicals", Bool(TRUE))>>)
E_code == Dict(<<KV("uuid", Str(sU1)), KV("label", Str(sGlucoseK12)),
                 KV("original_spans", Dict(<<KV("note", Str(sBinomial))>>))>>)

\* parsed top-level YAML documents
DocPool ==
    { \* a recognized key over a sequence of mappings only
      Dict(<<KV("entities", List(<<E_two, E_dsm>>))>>),
      \* a recognized key over a mixed sequence
      Dict(<<KV("entities", List(<<E_two, E_plain, Num(5)>>))>>),
      \* a recognized key inside a mapping that is an element of a sequence
      Dict(<<KV("results", List(<<Dict(<<KV("ner", List(<<E_dsm>>))>>)>>))>>),
      \* a recognized key over a mapping, at depth two; a sequence of mappings
      \* under a key that is not recognized
      Dict(<<KV("data", Dict(<<KV("annotations",
                    Dict(<<KV("a", E_blank), KV("b", Str(sAutoX))>>))>>)),
             KV("other", List(<<E_bare>>))>>),
      \* nothing to locate
      Dict(<<KV("meta", Str(sAutoX))>>),
      \* a top-level document that is not a mapping
      List(<<E_two>>),
      \* the second collection comes between the two collections of E_two
      Dict(<<KV("other", List(<<E_one>>)), KV("entities", List(<<E_two>>))>>),
      \* no entity carries the marker
      Dict(<<KV("extractions", List(<<E_plain, E_clave>>))>>),
      Dict(<<KV("named_entities", List(<<E_deep, E_clave>>))>>),
      Dict(<<KV("named-entities", Dict(<<KV("x", E_num)>>)),
             KV("ner", List(<<E_empties>>))>>),
      Dict(<<KV("entities", List(<<E_numtext>>))>>),
      Dict(<<KV("entities", List(<<E_listlabel, Str(sS)>>))>>),
      Dict(<<KV("annotations", List(<<E_dsm, E_date, Num(5)>>))>>),
      Dict(<<KV("ner", List(<<E_nostrain, E_strain>>)),
             KV("more", Dict(<<KV("entities", List(<<E_code, None>>))>>))>>) }

\* the most top-level documents in one YAML source
MaxDocs == 2

RECURSIVE SeqsUpTo(_, _)
SeqsUpTo(S, n) ==
    IF n = 0 THEN {<<>>}
    ELSE LET shorter == SeqsUpTo(S, n - 1)
         IN  shorter \cup { Append(q, x) : q \in shorter, x \in S }

(* ------------------------------------------------------------------ *)
(* State                                                               *)
(* ------------------------------------------------------------------ *)
VARIABLES
    stream,         \* the parsed top-level documents of the YAML source
    di,             \* the next document of line 131's loop
    all_entities,   \* line 130
    auto_entities,  \* line 135
    ei,             \* the next entity of line 139's loop
    e,              \* the entity last handed to infer_categories
    flags,          \* what infer_categories returned for e
    rows,           \* line 138
    origin,         \* for each row, the index in auto_entities of its entity
    table,          \* the DataFrame returned
    status,         \* "running", "returned" or "raised"
    pc

vars == <<stream, di, all_entities, auto_entities, ei, e, flags, rows, origin,
          table, status, pc>>

NoFlags == [ok |-> FALSE, study_taxa |-> 0, strains |-> 0, chemicals_mentioned |-> 0]

Init ==
    /\ stream \in SeqsUpTo(DocPool, MaxDocs)
    /\ di = 1
    /\ all_entities = <<>>
    /\ auto_entities = <<>>
    /\ ei = 1
    /\ e = None
    /\ flags = NoFlags
    /\ rows = <<>>
    /\ origin = <<>>
    /\ table = DataFrame(<<>>)
    /\ status = "running"
    /\ pc = "collect"

\* lines 131-132, one document; iter_yaml_docs (lines 10-12) skips a document
\* that is not a mapping
Collect ==
    /\ pc = "collect"
    /\ di <= Len(stream)
    /\ all_entities' =
          IF IsDict(stream[di])
          THEN all_entities \o find_entities_like(stream[di])
          ELSE all_entities
    /\ di' = di + 1
    /\ UNCHANGED <<stream, auto_entities, ei, e, flags, rows, origin, table, status, pc>>

\* line 135
Filter ==
    /\ pc = "collect"
    /\ di > Len(stream)
    /\ auto_entities' = FilterAuto(all_entities)
    /\ pc' = "rows"
    /\ UNCHANGED <<stream, di, all_entities, ei, e, flags, rows, origin, table, status>>

\* lines 139-151, one entity; an exception ends build_auto_tables
BuildRows ==
    /\ pc = "rows"
    /\ ei <= Len(auto_entities)
    /\ LET r == EntityRows(auto_entities[ei])
       IN  /\ e' = auto_entities[ei]
           /\ flags' = infer_categories(auto_entities[ei])
           /\ IF r.ok
              THEN /\ rows' = rows \o r.rows
                   /\ origin' = origin \o [i \in 1..Len(r.rows) |-> ei]
                   /\ ei' = ei + 1
                   /\ UNCHANGED <<status, pc>>
              ELSE /\ status' = "raised"
                   /\ pc' = "done"
                   /\ UNCHANGED <<rows, origin, ei>>
    /\ UNCHANGED <<stream, di, all_entities, auto_entities, table>>

\* lines 153-168
MakeTable ==
    /\ pc = "rows"
    /\ ei > Len(auto_entities)
    /\ LET f == Finish(rows)
       IN  /\ table' = f.df
           /\ status' = IF f.ok THEN "returned" ELSE "raised"
    /\ pc' = "done"
    /\ UNCHANGED <<stream, di, all_entities, auto_entities, ei, e, flags, rows, origin>>

Next == Collect \/ Filter \/ BuildRows \/ MakeTable

Spec == Init /\ [][Next]_vars

(* ------------------------------------------------------------------ *)
(* infer_categories alone, on every combination of field values        *)
(* ------------------------------------------------------------------ *)
sIsolate == <<"i","s","o","l","a","t","e">>
sLMG == <<"L","M","G">>
sCulture == <<"C","u","l","t","u","r","e">>
sVibrio == <<"V","i","b","r","i","o"," ","f","i">>

LabelPool ==
    { Absent, Str(<<>>), Str(sAutoX), Str(sAutoDSM), Str(sGene), Str(sGlucoseK12),
      Str(sVibrio), List(<<Str(sAutoX)>>), Num(5) }
SpansPool ==
    { Absent, Str(sGrown),
      List(<<Dict(<<KV("text", Str(sIsolate))>>), Str(sLMG), Dict(<<KV("note", Str(sS))>>)>>),
      Dict(<<KV("text", Num(5))>>),
      Dict(<<KV("note", Str(sBinomial))>>),
      Dict(<<KV("when", Date(2020, 1, 5))>>) }
MentionsPool == { Absent, Str(sCulture) }
StudyTaxaPool == { Absent, Str(sEcoli), List(<<>>) }
StrainsPool == { Absent, None, Bool(FALSE), List(<<>>), Str(sS) }
ChemicalsPool == { Absent, Bool(TRUE) }

EntityFull ==
    { Entity(<<KV("label", l), KV("original_spans", o), KV("mentions", m),
               KV("study_taxa", x), KV("strains", r), KV("chemicals", c)>>) :
        l \in LabelPool, o \in SpansPool, m \in MentionsPool,
        x \in StudyTaxaPool, r \in StrainsPool, c \in ChemicalsPool }

InitClassify ==
    /\ e \in EntityFull
    /\ stream = <<>>
    /\ di = 1
    /\ all_entities = <<>>
    /\ auto_entities = <<>>
    /\ ei = 1
    /\ flags = NoFlags
    /\ rows = <<>>
    /\ origin = <<>>
    /\ table = DataFrame(<<>>)
    /\ status = "running"
    /\ pc = "classify"

\* lines 97-125 on e
Classify ==
    /\ pc = "classify"
    /\ flags' = infer_categories(e)
    /\ status' = IF flags'.ok THEN "returned" ELSE "raised"
    /\ pc' = "classified"
    /\ UNCHANGED <<stream, di, all_entities, auto_entities, ei, e, rows, origin, table>>

NextClassify == Classify

SpecClassify == InitClassify /\ [][NextClassify]_vars

(* ------------------------------------------------------------------ *)
(* Properties                                                          *)
(* ------------------------------------------------------------------ *)
Returned == pc = "done" /\ status = "returned"

\* the documents line 131 has gone through that iter_yaml_docs yields
Collected == { stream[i] : i \in { j \in 1..(di - 1) : IsDict(stream[j]) } }

\* C1: build_auto_tables never ends in an error, whatever the shapes of the
\* values in the entities. The code raises: _concat_text joins a span
\* mapping's non-str text, json.dumps meets a date, drop_duplicates hashes a
\* label that is a sequence.
C1_NeverRaises == status # "raised"

\* absent or empty
Blank(v) == IsNone(v) \/ v = Str(<<>>)

\* C2: no row of a returned table has id, label and original_spans all
\* absent or empty.
C2_NoDegenerateRow ==
    Returned =>
        \A i \in 1..Len(table.rows) :
            ~(Blank(table.rows[i].id) /\ Blank(table.rows[i].label)
                /\ Blank(table.rows[i].original_spans))

\* the usable taxon names of a study_taxa value: the names of RawNames,
\* trimmed, those left empty dropped
UsableNames(val) ==
    SelectSeq([i \in 1..Len(RawNames(val)) |-> Strip(RawNames(val)[i])],
              LAMBDA n : n # <<>>)

\* the rows built for the j-th retained entity
RowsFrom(j) ==
    LET idx == SelectSeq([i \in 1..Len(rows) |-> i], LAMBDA i : origin[i] = j)
    IN  [i \in 1..Len(idx) |-> rows[idx[i]]]

\* C3: an entity whose study_taxa holds N distinct non-empty names gets
\* exactly N rows, one per name, equal on all other fields; an entity with no
\* usable name (absent, empty, unsupported shape, only empty or
\* whitespace-only names) gets exactly one row, with UNKNOWN_MICROBE.
C3_FanOut ==
    \A j \in 1..(ei - 1) :
        LET names == UsableNames(Get(auto_entities[j], "study_taxa"))
            mine  == RowsFrom(j)
        IN  /\ \A a, b \in 1..Len(mine) :
                   [mine[a] EXCEPT !.microbe = <<>>] = [mine[b] EXCEPT !.microbe = <<>>]
            /\ IF names = <<>>
               THEN Len(mine) = 1 /\ mine[1].microbe = UNKNOWN_MICROBE
               ELSE Cardinality(Range(names)) = Len(names) =>
                        [i \in 1..Len(mine) |-> mine[i].microbe] = names

\* C4: when no entity survives the filter, build_auto_tables returns a table
\* of zero rows that has the seven columns.
C4_EmptyHasColumns ==
    (pc = "done" /\ auto_entities = <<>>) =>
        status = "returned" /\ table.rows = <<>> /\ table.columns = Columns

\* C5: every row built, and so every row of the table, comes from a located
\* entity for which entity_contains_auto is true; an entity without the
\* marker is the origin of no row.
C5_ProvenanceGating ==
    /\ \A i \in 1..Len(rows) :
          LET src == auto_entities[origin[i]]
          IN  /\ entity_contains_auto(src)
              /\ src \in Range(all_entities)
              /\ rows[i] \in Range(EntityRows(src).rows)
    /\ \A i \in 1..Len(table.rows) : table.rows[i] \in Range(rows)

C5_Witness ==
    /\ Returned
    /\ table.rows # <<>>
    /\ \E i \in 1..Len(all_entities) :
          /\ ~entity_contains_auto(all_entities[i])
          /\ Truthy(Get(all_entities[i], "id"))
          /\ Truthy(Get(all_entities[i], "study_taxa"))

\* the text infer_categories searches for e
TextOf(x) == _concat_text(x).text

\* C6 as stated: strains present gives strains = 1 whatever the text, and no
\* strains field with no strain pattern matching gives strains = 0.
C6_PresencePrecedence ==
    (pc = "classified" /\ flags.ok) =>
        /\ HasKey(e, "strains") => flags.strains = 1
        /\ (~HasKey(e, "strains") /\ ~StrainHeuristic(TextOf(e))) => flags.strains = 0

\* C6, amended: in every result of infer_categories, a strains field with a
\* truthy value gives strains = 1 even when no strain pattern matches; a
\* strains field that is absent or falsy, with no strain pattern matching,
\* gives strains = 0.
C6_TruthyPrecedence ==
    (pc = "classified" /\ flags.ok) =>
        /\ Truthy(Get(e, "strains")) => flags.strains = 1
        /\ (~Truthy(Get(e, "strains")) /\ ~StrainHeuristic(TextOf(e))) => flags.strains = 0

C6_Witness ==
    /\ pc = "classified"
    /\ flags.ok
    /\ Truthy(Get(e, "strains"))
    /\ TextOf(e) # <<>>
    /\ ~StrainHeuristic(TextOf(e))
    /\ flags.strains = 1

\* the index of the first occurrence of r in rs
FirstIndex(rs, r) == CHOOSE i \in 1..Len(rs) : rs[i] = r /\ \A j \in 1..(i - 1) : rs[j] # r

\* C7: a returned table holds no two equal rows; it holds every row built,
\* once, in the order of the first occurrences.
C7_Deduplication ==
    Returned =>
        /\ \A i, j \in 1..Len(table.rows) : i # j => table.rows[i] # table.rows[j]
        /\ Range(table.rows) = Range(rows)
        /\ \A i, j \in 1..Len(table.rows) :
              i < j => FirstIndex(rows, table.rows[i]) < FirstIndex(rows, table.rows[j])

C7_Witness ==
    /\ Returned
    /\ Len(table.rows) >= 3
    /\ Len(rows) > Len(table.rows)
    /\ \E i, j \in 1..Len(rows) : rows[i] = rows[j] /\ origin[i] # origin[j]
          /\ auto_entities[origin[i]] # auto_entities[origin[j]]

Bit(x) == x \in {0, 1}
BitRow(r) == Bit(r.study_taxa) /\ Bit(r.strains) /\ Bit(r.chemicals_mentioned)

\* C8: every flag of every result of infer_categories, of every row built and
\* of every row of the table is the integer 0 or 1.
C8_FlagDomain ==
    /\ BitRow(flags)
    /\ \A i \in 1..Len(rows) : BitRow(rows[i])
    /\ \A i \in 1..Len(table.rows) : BitRow(table.rows[i])

C8_Witness ==
    /\ Returned
    /\ \E i, j \in 1..Len(table.rows) :
          /\ table.rows[i].strains = 1 /\ table.rows[i].chemicals_mentioned = 1
          /\ table.rows[j].strains = 0 /\ table.rows[j].study_taxa = 1

\* the mappings stored under a recognized key (the mapping elements of a
\* sequence, the mapping values of a mapping) of v or of a mapping inside v;
\* inside means through mapping values and, with lists, through the elements
\* of sequences as well
RECURSIVE UnderRecognized(_, _)
UnderRecognized(v, lists) ==
    IF IsDict(v)
    THEN UNION { (IF v.pairs[i].k \in Range(RecognizedKeys)
                  THEN (IF IsList(v.pairs[i].v) THEN Range(OnlyDicts(v.pairs[i].v.items))
                        ELSE IF IsDict(v.pairs[i].v)
                             THEN Range(OnlyDicts(Values(v.pairs[i].v)))
                        ELSE {})
                  ELSE {})
                 \cup UnderRecognized(v.pairs[i].v, lists) : i \in 1..Len(v.pairs) }
    ELSE IF IsList(v) /\ lists
    THEN UNION { UnderRecognized(v.items[i], lists) : i \in 1..Len(v.items) }
    ELSE {}

\* C9 as stated: every mapping under a recognized key at any depth, a
\* recognized key inside an element of a sequence included, is returned.
C9_CoverageAnyDepth ==
    \A d \in Collected : UnderRecognized(d, TRUE) \subseteq Range(all_entities)

\* C9, amended: every mapping under a recognized key of the document or of a
\* mapping reached from it through mapping values only is returned.
C9_Coverage ==
    \A d \in Collected : UnderRecognized(d, FALSE) \subseteq Range(all_entities)

C9_Witness ==
    \E d \in Collected : \E i \in 1..Len(d.pairs) :
        /\ d.pairs[i].k \notin Range(RecognizedKeys)
        /\ IsDict(d.pairs[i].v)
        /\ UnderRecognized(d.pairs[i].v, FALSE) # {}
        /\ UnderRecognized(d.pairs[i].v, FALSE) \subseteq Range(all_entities)

\* the sequences of mappings only that sit under a recognized key of v or of
\* a mapping reached from v through mapping values
RECURSIVE UniformBlocks(_)
UniformBlocks(v) ==
    IF IsDict(v)
    THEN Flatten([i \in 1..Len(v.pairs) |->
            (IF v.pairs[i].k \in Range(RecognizedKeys) /\ IsList(v.pairs[i].v)
                 /\ UniformList(v.pairs[i].v) # <<>>
             THEN v.pairs[i].v.items ELSE <<>>)
            \o UniformBlocks(v.pairs[i].v)])
    ELSE <<>>

\* the entity locator that takes such a sequence once, by the recognized-key
\* rule, and not again on the descent
RECURSIVE FindOnce(_)
FindOnce(obj) ==
    IF IsDict(obj)
    THEN Flatten([i \in 1..Len(RecognizedKeys) |-> KeyBlock(obj, RecognizedKeys[i])])
         \o Flatten([i \in 1..Len(obj.pairs) |->
                IF obj.pairs[i].k \in Range(RecognizedKeys) /\ IsList(obj.pairs[i].v)
                THEN <<>>
                ELSE FindOnce(obj.pairs[i].v)])
    ELSE IF IsList(obj) THEN UniformList(obj)
    ELSE <<>>

\* what build_auto_tables does from line 135 on with the entities located
Outcome(entities) ==
    LET auto == FilterAuto(entities)
        rs   == [i \in 1..Len(auto) |-> EntityRows(auto[i])]
    IN  IF \E i \in 1..Len(rs) : ~rs[i].ok
        THEN [status |-> "raised", table |-> DataFrame(<<>>)]
        ELSE LET f == Finish(Flatten([i \in 1..Len(rs) |-> rs[i].rows]))
             IN  [status |-> IF f.ok THEN "returned" ELSE "raised", table |-> f.df]

DocsOf(st) == SelectSeq(st, IsDict)
LocatedOnce == Flatten([i \in 1..Len(DocsOf(stream)) |-> FindOnce(DocsOf(stream)[i])])

\* C10: a sequence of mappings under a recognized key is collected twice, and
\* the outcome of build_auto_tables is the one it has with the locator that
\* collects it once.
C10_DoubleMasked ==
    /\ \A d \in Collected : \A x \in Range(UniformBlocks(d)) :
          /\ Count(x, find_entities_like(d)) =
                 Count(x, FindOnce(d)) + Count(x, UniformBlocks(d))
          /\ Count(x, find_entities_like(d)) >= 2 * Count(x, UniformBlocks(d))
    /\ pc = "done" =>
          [status |-> status, table |-> table] = Outcome(LocatedOnce)

C10_Witness ==
    /\ Returned
    /\ Len(all_entities) > Len(LocatedOnce)
    /\ Len(table.rows) >= 2
    /\ \E d \in Collected : \E x \in Range(UniformBlocks(d)) :
          entity_contains_auto(x) /\ Count(x, find_entities_like(d)) = 2

====
